---- MODULE Spec2Model ----
(***************************************************************************)
(* State-machine model of the two NAV estimation scripts                   *)
(*   calculate_isus_nav_online_fallback.py  (script = "online")            *)
(*   calculate_isus_nav_xls.py              (script = "xls")               *)
(* Each script is one sequential run: load shares outstanding and the      *)
(* holdings table, clean it, fetch FX rates, value the rows one by one,    *)
(* aggregate, write nav_result.txt and exit.  The outcomes of the external *)
(* collaborators (HTTP, file system, spreadsheet reader, market data) are  *)
(* the nondeterministic inputs of the actions.                             *)
(*                                                                         *)
(* Text that the code inspects or builds character by character (tickers,  *)
(* currency codes, numeric cells, file contents) is a sequence of          *)
(* one-character strings.  Floats are modelled by integers (every input of *)
(* the bounded sets is integer valued) plus the NaN and None markers.      *)
(***************************************************************************)
EXTENDS Integers, Sequences, FiniteSets, TLC

(***************************** bounds **************************************)
\* Largest number of rows of a holdings table that has all five columns.
MaxRows == 2
\* Largest number of rows of a holdings table that lacks one column.
MaxPartialRows == 1
\* Number of Equity rows of the long holdings tables (more than the top-10
\* list can take).
MaxEquityRows == 11

(************************* optional / float values *************************)
None == [t |-> "None"]
NaN == [t |-> "nan"]
Num(v) == [t |-> "num", v |-> v]
Str(s) == [t |-> "str", s |-> s]
\* A non-string, non-float Python object (numpy integer, datetime, ...).
Obj(v) == [t |-> "obj", v |-> v]

IsNone(x) == x.t = "None"
\* A float other than NaN: a value that compares and multiplies as a number.
IsNum(x) == x.t = "num"
\* The infinite floats: inf, and -inf when neg.
Inf(neg) == [t |-> "inf", neg |-> neg]
IsInf(x) == x.t = "inf"
\* isinstance(x, (int, float)) on a cell value: NaN and the infinities are
\* floats too.
IsFloat(x) == x.t \in {"num", "nan", "inf"}

\* Float arithmetic on numbers, infinities and NaN.
IsNegative(x) == IF IsInf(x) THEN x.neg ELSE x.v < 0
IsZero(x) == IsNum(x) /\ x.v = 0

\* a * b: NaN spreads, inf * 0 is NaN, otherwise inf keeps the product's sign.
FMul(a, b) ==
    IF a.t = "nan" \/ b.t = "nan" THEN NaN
    ELSE IF IsInf(a) \/ IsInf(b)
    THEN (IF IsZero(a) \/ IsZero(b) THEN NaN ELSE Inf(IsNegative(a) # IsNegative(b)))
    ELSE Num(a.v * b.v)

\* a + b: NaN spreads, inf + -inf is NaN, otherwise an infinity absorbs.
FAdd(a, b) ==
    IF a.t = "nan" \/ b.t = "nan" THEN NaN
    ELSE IF IsInf(a) /\ IsInf(b) THEN (IF a.neg = b.neg THEN a ELSE NaN)
    ELSE IF IsInf(a) THEN a
    ELSE IF IsInf(b) THEN b
    ELSE Num(a.v + b.v)

\* a > b for floats that are not NaN.
FGreater(a, b) ==
    IF IsInf(a) THEN ~a.neg /\ b # a
    ELSE IF IsInf(b) THEN b.neg
    ELSE a.v > b.v
\* pd.isna(x): NaN and None are null.
IsNa(x) == x.t \in {"nan", "None"}

(******************************* text **************************************)
Digits == <<"0", "1", "2", "3", "4", "5", "6", "7", "8", "9">>
DigitSet == {Digits[i] : i \in 1..10}
DigitVal(c) == CHOOSE d \in 0..9 : Digits[d + 1] = c

\* str.replace(c, '') for a one-character c.
RemoveChar(s, c) == SelectSeq(s, LAMBDA x : x # c)

\* str.replace(c, '', 1): only the first occurrence is removed.
RemoveFirst(s, c) ==
    IF \E i \in 1..Len(s) : s[i] = c
    THEN LET k == CHOOSE i \in 1..Len(s) : s[i] = c /\ \A j \in 1..(i - 1) : s[j] # c
         IN SubSeq(s, 1, k - 1) \o SubSeq(s, k + 1, Len(s))
    ELSE s

\* str.isdigit(): non-empty and every character a digit.
IsDigit(s) == Len(s) > 0 /\ \A i \in 1..Len(s) : s[i] \in DigitSet

RECURSIVE DecValue(_)
DecValue(s) == IF Len(s) = 0 THEN 0
               ELSE 10 * DecValue(SubSeq(s, 1, Len(s) - 1)) + DigitVal(s[Len(s)])

RECURSIVE IntToChars(_)
IntToChars(n) == IF n < 10 THEN <<Digits[n + 1]>>
                 ELSE IntToChars(n \div 10) \o <<Digits[(n % 10) + 1]>>

Abs(n) == IF n < 0 THEN -n ELSE n

\* float(s) for the digit strings s.isdigit() lets through, and for digit
\* strings with one '.' whose fraction is zero ("1000.0", "1000."); a
\* non-zero fraction is outside the integer-valued inputs of the model.
FloatOfText(s) ==
    IF \E i \in 1..Len(s) : s[i] = "."
    THEN LET k == CHOOSE i \in 1..Len(s) : s[i] = "."
         IN Num(DecValue(SubSeq(s, 1, k - 1)))
    ELSE Num(DecValue(s))

\* Mutant of Fmt4: the fourth decimal is cut, not rounded.
Fmt4_Truncates(num, den) ==
    LET q == (Abs(num) * 10000) \div den
        frac == q % 10000
        pad == IF frac < 10 THEN <<"0", "0", "0">>
               ELSE IF frac < 100 THEN <<"0", "0">>
               ELSE IF frac < 1000 THEN <<"0">> ELSE <<>>
    IN (IF num < 0 THEN <<"-">> ELSE <<>>)
       \o IntToChars(q \div 10000) \o <<".">> \o pad \o IntToChars(frac)

RECURSIVE BitLength(_)
BitLength(i) == IF i = 0 THEN 0 ELSE 1 + BitLength(i \div 2)

\* The float division n / d (n >= 0, d > 0) rounds the quotient to 53
\* significant bits, ties to even.  RoundingSign continues the binary long
\* division of n / d from remainder r, with `have` significant bits produced
\* so far and the last of them lsb, and gives the sign of (float - exact
\* quotient): 0 when the quotient is a float, 1 when the float is above it,
\* -1 when it is below.
RECURSIVE RoundingSign(_, _, _, _)
RoundingSign(r, d, have, lsb) ==
    IF r = 0 THEN 0
    ELSE LET bit == (2 * r) \div d
             rest == (2 * r) % d
         IN IF have < 53
            THEN (IF have > 0 \/ bit = 1 THEN RoundingSign(rest, d, have + 1, bit)
                  ELSE RoundingSign(rest, d, 0, 0))
            ELSE IF bit = 0 THEN -1
            ELSE IF rest > 0 THEN 1
            ELSE IF lsb = 1 THEN 1 ELSE -1

FloatVsExact(n, d) == RoundingSign(n % d, d, BitLength(n \div d), (n \div d) % 2)

\* f"{num/den:.4f}" for den > 0: the float nearest to the quotient, printed
\* with 4 decimals (the float's exact value rounded, ties to even), the sign
\* of a negative quotient kept even when it rounds to 0.  Away from a tie in
\* the 5th decimal the float rounds as the quotient does; at a tie the side
\* the float fell on decides, and the digit before it when the float is exact.
Fmt4(num, den) ==
    LET a == Abs(num) * 10000
        q0 == a \div den
        r == a % den
        side == FloatVsExact(Abs(num), den)
        up == \/ 2 * r > den
              \/ 2 * r = den /\ (side > 0 \/ (side = 0 /\ q0 % 2 = 1))
        q == IF up THEN q0 + 1 ELSE q0
        frac == q % 10000
        pad == IF frac < 10 THEN <<"0", "0", "0">>
               ELSE IF frac < 100 THEN <<"0", "0">>
               ELSE IF frac < 1000 THEN <<"0">> ELSE <<>>
    IN (IF num < 0 THEN <<"-">> ELSE <<>>)
       \o IntToChars(q \div 10000) \o <<".">> \o pad \o IntToChars(frac)

\* The text f"{x:.4f}" gives for a NaN.
NanText == <<"n", "a", "n">>
ERROR == <<"E", "R", "R", "O", "R">>

(************************** file contents and tags **************************)
Chars_URL == <<"U", "R", "L">>
Chars_LocalFile == <<"L", "o", "c", "a", "l", " ", "F", "i", "l", "e">>
Chars_Unknown == <<"U", "n", "k", "n", "o", "w", "n">>
Chars_Error == <<"E", "r", "r", "o", "r">>
Chars_Cash == <<" ", "C", "a", "s", "h">>
Chars_NA == <<"N", "/", "A">>
USD == <<"U", "S", "D">>
EUR == <<"E", "U", "R">>
GBP == <<"G", "B", "P">>
JPY == <<"J", "P", "Y">>

\* What an earlier run left in nav_result.txt / source_used.txt: nothing (first
\* run) or the output of an earlier successful run.
PriorFiles ==
    { [result |-> <<>>, source |-> <<>>],
      [result |-> <<"9", ".", "9", "9", "9", "9">>, source |-> Chars_URL] }

(***************************** holdings input ******************************)
AllCols == {"Ticker", "Shares", "Market Currency", "Asset Class", "Market Value"}
KeyCols == {"Ticker", "Shares", "Market Currency", "Asset Class"}

Row(tk, sh, cur, ac, mv) ==
    ("Ticker" :> tk) @@ ("Shares" :> sh) @@ ("Market Currency" :> cur)
    @@ ("Asset Class" :> ac) @@ ("Market Value" :> mv)

\* The raw rows a source table is made of.  Numeric columns hold the text of
\* the cell (read_csv leaves "15,000" a string), an already numeric cell or a
\* null; Ticker holds a string, a non-string object or a null.
Catalogue ==
    << Row(Str(<<"A","B","C","D","E","F","G","H","I","J","K">>), Num(10), Str(USD),
           Str("Equity"), Num(100)),
       Row(Str(<<"B","R","K"," ","B">>), Num(20), Str(USD), Str("Equity"), Num(200)),
       Row(Obj(7203), Num(30), Str(USD), Str("Equity"), Num(300)),
       Row(Str(<<"A","A","P","L">>), Str(<<"1","0","0">>), Str(USD), Str("Equity"),
           Str(<<"1","5",",","0","0","0">>)),
       Row(Str(USD), Str(<<"5","0","0">>), Str(USD), Str("Cash"), Str(<<"5","0","0">>)),
       Row(Str(EUR), Num(200), Str(EUR), Str("Cash"), Num(200)),
       Row(Str(GBP), Num(300), Str(GBP), Str("Cash"), Num(300)),
       Row(Str(JPY), Num(400), Str(JPY), Str("Cash"), Num(400)),
       Row(Str(USD), Num(50), Str(USD), Str("Cash"), NaN),
       Row(Str(USD), Str(<<"-","7","0","0">>), Str(USD), Str("Cash"),
           Str(<<"-","7","0","0">>)),
       Row(Str(<<"Z","Z">>), Str(<<"-">>), Str(USD), Str("Equity"), Num(900)),
       Row(Str(<<"E","S","Z">>), Num(5), Str(USD), Str("Futures"), Num(600)) >>

\* Equity rows of a long table: share-class style tickers (with a space, as
\* "BRK B") that the symbol check of the loop rejects, one share each, and
\* distinct market values in no particular order; the last row has none.
Letters == <<"A", "B", "C", "D", "E", "F", "G", "H", "I", "J", "K", "L", "M">>
LadderValue(i) == ((7 * i) % 13) * 10
Ladder ==
    [i \in 1..(MaxEquityRows + 1) |->
        Row(Str(<<"E", "Q", " ", Letters[i]>>), Num(1), Str(USD), Str("Equity"),
            IF i = MaxEquityRows + 1 THEN NaN ELSE Num(LadderValue(i)))]

\* All rows a source table may hold: the catalogue, then the ladder.
AllRows == Catalogue \o Ladder

\* The long tables: MaxEquityRows valued rows in both orders, the same
\* number of rows with the unvalued one among them, and one row fewer.
LongSelections ==
    LET n == Len(Catalogue)
    IN { [k \in 1..MaxEquityRows |-> n + k],
         [k \in 1..MaxEquityRows |-> n + MaxEquityRows + 1 - k],
         [k \in 1..MaxEquityRows |-> n + k + 1],
         [k \in 1..(MaxEquityRows - 1) |-> n + k + 2] }

\* Row selections: strictly increasing index sequences into the catalogue.
Selections(n) ==
    { s \in UNION { [1..k -> 1..Len(Catalogue)] : k \in 0..n } :
        \A i \in 1..(Len(s) - 1) : s[i] < s[i + 1] }

\* The shapes a source table may come with: all five required columns, or all
\* but one of them, and the rows selected.
TableShapes ==
    { [cols |-> AllCols, sel |-> s] : s \in Selections(MaxRows) \cup LongSelections }
    \cup { [cols |-> AllCols \ {c}, sel |-> s] :
             c \in AllCols, s \in Selections(MaxPartialRows) }

Restrict(row, cols) == [c \in cols |-> row[c]]

\* A parsed source table; origin records which source produced it.
RawTable(cols, sel, origin) ==
    [ cols |-> cols,
      rows |-> [i \in 1..Len(sel) |-> Restrict(AllRows[sel[i]], cols)],
      origin |-> origin ]

(***************************** cleaning ************************************)
\* The characters the number parser skips at both ends of the text: space,
\* tab, newline, vertical tab, form feed, carriage return.
Blanks == {" ", "\t", "\n", "", "\f", "\r"}

RECURSIVE StripSpaces(_)
StripSpaces(s) ==
    IF Len(s) > 0 /\ s[1] \in Blanks THEN StripSpaces(Tail(s))
    ELSE IF Len(s) > 0 /\ s[Len(s)] \in Blanks THEN StripSpaces(SubSeq(s, 1, Len(s) - 1))
    ELSE s

\* Lower case of a text (the infinity words are matched without case).
UpperCase == <<"A", "B", "C", "D", "E", "F", "G", "H", "I", "J", "K", "L", "M",
               "N", "O", "P", "Q", "R", "S", "T", "U", "V", "W", "X", "Y", "Z">>
LowerCase == <<"a", "b", "c", "d", "e", "f", "g", "h", "i", "j", "k", "l", "m",
               "n", "o", "p", "q", "r", "s", "t", "u", "v", "w", "x", "y", "z">>
ToLower(s) ==
    [i \in 1..Len(s) |->
        IF \E k \in 1..Len(UpperCase) : UpperCase[k] = s[i]
        THEN LowerCase[CHOOSE k \in 1..Len(UpperCase) : UpperCase[k] = s[i]]
        ELSE s[i]]

\* The words the parser takes for an infinity once the digit parser has
\* failed, after an optional sign and with nothing around them.
InfWords == { <<"i", "n", "f">>, <<"i", "n", "f", "i", "n", "i", "t", "y">> }

\* Index of the first character of s that is in set, 0 when there is none.
FirstIndex(s, set) ==
    IF \E i \in 1..Len(s) : s[i] \in set
    THEN CHOOSE i \in 1..Len(s) : s[i] \in set /\ \A j \in 1..(i - 1) : s[j] \notin set
    ELSE 0

RECURSIVE Pow10(_)
Pow10(n) == IF n = 0 THEN 1 ELSE 10 * Pow10(n - 1)

\* pd.to_numeric(text, errors='coerce') after the ',' have been removed.  The
\* parser takes surrounding blanks, a sign, digits with at most one '.' (a
\* digit on at least one side of it) and an exponent e/E with an optionally
\* signed digit string; failing that, an infinity word with an optional sign
\* is inf or -inf; any other text ("-", "N/A", "nan", "None", "") is NaN.
\* The inputs of the model are integer valued: of a value with a non-zero
\* fraction only the integer part is kept.
ToNumeric(s) ==
    LET raw == RemoveChar(s, ",")
        rsigned == Len(raw) > 0 /\ raw[1] \in {"+", "-"}
        word == ToLower(IF rsigned THEN Tail(raw) ELSE raw)
        t == StripSpaces(raw)
        signed == Len(t) > 0 /\ t[1] \in {"+", "-"}
        body == IF signed THEN Tail(t) ELSE t
        e == FirstIndex(body, {"e", "E"})
        mant == IF e = 0 THEN body ELSE SubSeq(body, 1, e - 1)
        expo == IF e = 0 THEN <<>> ELSE SubSeq(body, e + 1, Len(body))
        esigned == Len(expo) > 0 /\ expo[1] \in {"+", "-"}
        edigits == IF esigned THEN Tail(expo) ELSE expo
        dot == FirstIndex(mant, {"."})
        ip == IF dot = 0 THEN mant ELSE SubSeq(mant, 1, dot - 1)
        fp == IF dot = 0 THEN <<>> ELSE SubSeq(mant, dot + 1, Len(mant))
        ok == /\ \A i \in 1..Len(ip) : ip[i] \in DigitSet
              /\ \A i \in 1..Len(fp) : fp[i] \in DigitSet
              /\ Len(ip) + Len(fp) > 0
              /\ e = 0 \/ IsDigit(edigits)
        ev == IF e = 0 THEN 0
              ELSE IF esigned /\ expo[1] = "-" THEN -DecValue(edigits)
              ELSE DecValue(edigits)
        shift == ev - Len(fp)
        m == DecValue(ip \o fp)
        mag == IF shift >= 0 THEN m * Pow10(shift) ELSE m \div Pow10(-shift)
    IN IF ok THEN Num(IF signed /\ t[1] = "-" THEN -mag ELSE mag)
       ELSE IF word \in InfWords THEN Inf(rsigned /\ raw[1] = "-")
       ELSE NaN

\* astype(str) of a cell: a string is itself, a float prints with its
\* fraction ("100.0"), NaN as "nan", None as "None", another object by str().
AsTypeStr(cell) ==
    IF cell.t = "str" THEN cell.s
    ELSE IF cell.t = "num"
    THEN (IF cell.v < 0 THEN <<"-">> ELSE <<>>) \o IntToChars(Abs(cell.v)) \o <<".", "0">>
    ELSE IF cell.t = "nan" THEN <<"n", "a", "n">>
    ELSE IF cell.t = "inf"
    THEN (IF cell.neg THEN <<"-">> ELSE <<>>) \o <<"i", "n", "f">>
    ELSE IF cell.t = "None" THEN <<"N", "o", "n", "e">>
    ELSE IntToChars(cell.v)

\* One cell of a column of cols_to_clean: astype(str), strip ',', to_numeric.
CleanCell(cell) == ToNumeric(AsTypeStr(cell))

CleanRow(row) ==
    [c \in DOMAIN row |-> IF c \in {"Market Value", "Shares"} THEN CleanCell(row[c])
                          ELSE row[c]]

\* dropna(subset=[Ticker, Shares, Market Currency, Asset Class]).
KeepRow(row) == \A c \in KeyCols : ~IsNa(row[c])

\* The loop over cols_to_clean: the columns present are replaced in place.
CleanColumns(df) ==
    [df EXCEPT !.rows = [i \in 1..Len(df.rows) |-> CleanRow(df.rows[i])]]

CleanTable(df) ==
    [df EXCEPT !.rows = SelectSeq(CleanColumns(df).rows, KeepRow)]

(************************ top 10 equity holdings ***************************)
\* The n of nlargest(n, 'Market Value').
TopN == 10

\* holdings_df[holdings_df['Asset Class'] == 'Equity']: the indexes of the
\* Equity rows of df, in table order.
EquitiesOf(df) ==
    SelectSeq([i \in 1..Len(df.rows) |-> i],
              LAMBDA i : df.rows[i]["Asset Class"] = Str("Equity"))

\* sort_values(ascending=False) on the market values of the rows at the
\* indexes ixs (none of them null): the k-th is the one with k - 1 rows
\* before it, a row coming before every smaller one and, among equals,
\* before the later ones (keep='first').
SortDescending(df, ixs) ==
    LET mv(i) == df.rows[ixs[i]]["Market Value"]
        before(i) == Cardinality({ j \in 1..Len(ixs) :
                                     FGreater(mv(j), mv(i)) \/ (mv(j) = mv(i) /\ j < i) })
    IN [k \in 1..Len(ixs) |-> ixs[CHOOSE i \in 1..Len(ixs) : before(i) = k - 1]]

\* head(n).
FirstN(seq, n) == SubSeq(seq, 1, IF Len(seq) < n THEN Len(seq) ELSE n)

\* Mutant of NLargest: every row is kept.
NLargest_KeepsAll(df, ixs, n) ==
    LET valued == SelectSeq(ixs, LAMBDA i : ~IsNa(df.rows[i]["Market Value"]))
        nulls == SelectSeq(ixs, LAMBDA i : IsNa(df.rows[i]["Market Value"]))
    IN SortDescending(df, valued) \o nulls

\* nlargest(n, 'Market Value') over the rows at ixs: the rows with a value by
\* descending value, then the rows without one in table order, cut to n.
NLargest(df, ixs, n) ==
    LET valued == SelectSeq(ixs, LAMBDA i : ~IsNa(df.rows[i]["Market Value"]))
        nulls == SelectSeq(ixs, LAMBDA i : IsNa(df.rows[i]["Market Value"]))
    IN FirstN(SortDescending(df, valued) \o nulls, n)

\* The top-10 section: the tickers of the TopN largest Equity rows, or the
\* empty list when the column is absent, there is no Equity row, or no Equity
\* row has a market value.
Top10Equities(df) ==
    IF "Market Value" \notin df.cols THEN <<>>
    ELSE LET equities_df == EquitiesOf(df)
         IN IF /\ Len(equities_df) > 0
               /\ ~ \A i \in 1..Len(equities_df) :
                       IsNa(df.rows[equities_df[i]]["Market Value"])
            THEN LET top == NLargest(df, equities_df, TopN)
                 IN [k \in 1..Len(top) |-> df.rows[top[k]]["Ticker"]]
            ELSE <<>>

(******************** section 1: shares outstanding ************************)
\* The product page as the scraper sees it: whether the col-sharesOutstanding
\* container and its data div exist, and the stripped text of the data div.
PageTexts ==
    { <<"1", ",", "0", "0", "0">>, <<"3">>, <<"0">>, <<>>, <<"1", ".", "5", "M">> }

Pages ==
    { [k |-> "page", container |-> c, data |-> d, text |-> t] :
        c \in BOOLEAN, d \in BOOLEAN, t \in PageTexts }

\* Mutant of ScrapedShares: a page without the value falls back to a default.
ScrapedShares_UsesDefault(page) ==
    IF page.container /\ page.data /\ IsDigit(RemoveChar(page.text, ","))
    THEN FloatOfText(RemoveChar(page.text, ","))
    ELSE Num(1000)

\* Lines 53-69 of the scrape script: the value, or None when any selector or
\* the digits-only check fails.
ScrapedShares(page) ==
    IF page.container /\ page.data
    THEN LET shares_text == RemoveChar(page.text, ",")
         IN IF IsDigit(shares_text) THEN FloatOfText(shares_text) ELSE None
    ELSE None

\* The shares row of the spreadsheet as read_excel returns it: the number of
\* columns read (0: an empty frame) and the value at column index 2.
CellValues ==
    { Num(1000), NaN, Obj(1000),
      Str(<<"1", ",", "0", "0", "0">>), Str(<<"1", "0", "0", "0", ".", "0">>),
      Str(<<"0">>), Str(Chars_NA), Str(<<>>) }

SharesRows ==
    { [ncols |-> n, val |-> None] : n \in {0, 2} }
    \cup { [ncols |-> 3, val |-> v] : v \in CellValues }

\* Lines 58-80 of the spreadsheet script: the value, or None where the code
\* raises ValueError.
SharesFromCell(shares_row) ==
    IF shares_row.ncols > 0 /\ shares_row.ncols > 2
    THEN LET shares_val == shares_row.val
         IN IF IsFloat(shares_val) THEN shares_val
            ELSE IF shares_val.t = "str"
            THEN LET cleaned_shares_val == RemoveChar(shares_val.s, ",")
                 IN IF IsDigit(RemoveFirst(cleaned_shares_val, "."))
                    THEN FloatOfText(cleaned_shares_val)
                    ELSE None
            ELSE None
    ELSE None

(************************ sections 5/6: valuation **************************)
\* yf.Ticker(t).info: raises, or gives the two price fields.
InfoOutcomes ==
    { [k |-> "raise", currentPrice |-> None, regularMarketPrice |-> None] }
    \cup { [k |-> "ok", currentPrice |-> c, regularMarketPrice |-> r] :
             c \in {None, Num(0), Num(150)}, r \in {None, Num(0), Num(150)} }

\* history(period="1d"): raises, is empty, or ends with a close.
HistOutcomes(close) ==
    { [k |-> "raise", v |-> 0], [k |-> "empty", v |-> 0], [k |-> "close", v |-> close] }

\* Python's `a or b` on optional numbers: a unless it is None or 0, else b.
PyOr(a, b) == IF IsNone(a) \/ IsZero(a) THEN b ELSE a

\* The answers of the market data provider to one ticker's lookups; the
\* history answer is enumerated only where the code asks for it.
MarketOutcomes ==
    { m \in [info : InfoOutcomes, hist : HistOutcomes(150)] :
        \/ m.hist.k = "empty"
        \/ /\ m.info.k = "ok"
           /\ IsNone(PyOr(m.info.currentPrice, m.info.regularMarketPrice)) }

RowGet(row, col, default) == IF col \in DOMAIN row THEN row[col] ELSE default

\* str(ticker).
StrOf(ticker) == IF ticker.t = "str" THEN ticker.s ELSE IntToChars(ticker.v)

\* The symbol check of the Equity branch.
TickerValid(ticker) ==
    /\ ticker.t = "str"
    /\ Len(ticker.s) <= 10
    /\ ~ \E i \in 1..Len(ticker.s) : ticker.s[i] = " "

\* What one iteration does: the amount added to the total, the tags appended
\* to missing_prices, whether processed_count is incremented, the calls made,
\* and how the row ended.
RowResult(add, miss, counted, events, outcome, price) ==
    [add |-> add, miss |-> miss, counted |-> counted, events |-> events,
     outcome |-> outcome, price |-> price]

\* Mutant of MissingPrice: the ticker is not recorded.
MissingPrice_NotRecorded(ticker, events) ==
    RowResult(Num(0), <<>>, TRUE, events, "missing", None)

\* missing_prices.append(str(ticker)): no price, or the lookup raised.
MissingPrice(ticker, events) ==
    RowResult(Num(0), <<StrOf(ticker)>>, TRUE, events, "missing", None)

\* Mutant of HoldingValue: the share count is left out.
HoldingValue_PriceOnly(shares, current_price_usd) == current_price_usd

\* holding_value_usd = shares * current_price_usd.
HoldingValue(shares, current_price_usd) == FMul(shares, current_price_usd)

EquityRow(ticker, shares, mkt) ==
    IF ~TickerValid(ticker)
    THEN RowResult(Num(0), <<>>, FALSE, <<>>, "skipped", None)
    ELSE IF mkt.info.k = "raise"
    THEN MissingPrice(ticker, <<"info">>)
    ELSE LET first == PyOr(mkt.info.currentPrice, mkt.info.regularMarketPrice)
             needs_hist == IsNone(first)
             current_price_usd ==
                 IF ~needs_hist THEN first
                 ELSE IF mkt.hist.k = "close" THEN Num(mkt.hist.v) ELSE None
             events == IF needs_hist THEN <<"info", "history">> ELSE <<"info">>
         IN IF needs_hist /\ mkt.hist.k = "raise"
            THEN MissingPrice(ticker, events)
            ELSE IF ~IsNone(current_price_usd)
            THEN RowResult(HoldingValue(shares, current_price_usd), <<>>, TRUE,
                           events \o <<"sleep">>, "valued", current_price_usd)
            ELSE MissingPrice(ticker, events \o <<"sleep">>)

\* Mutant of UnconvertedCash: the amount is added as if it were USD.
UnconvertedCash_PassesThrough(currency, cash_amount) ==
    RowResult(cash_amount, <<>>, TRUE, <<>>, "valued", None)

\* missing_prices.append(f"{currency} Cash"): no rate, or an unhandled currency.
UnconvertedCash(currency, cash_amount) ==
    RowResult(Num(0), <<currency.s \o Chars_Cash>>, TRUE, <<>>, "missing", None)

CashRow(row, currency, eur, gbp) ==
    LET cash_amount == RowGet(row, "Market Value", None)
        rate == IF currency.s = EUR THEN eur ELSE gbp
    IN IF IsNa(cash_amount)
       THEN RowResult(Num(0), <<>>, FALSE, <<>>, "skipped", None)
       ELSE IF currency.s = USD
       THEN RowResult(cash_amount, <<>>, TRUE, <<>>, "valued", None)
       ELSE IF currency.s \in {EUR, GBP}
       THEN IF ~IsNone(rate)
            THEN RowResult(FMul(cash_amount, rate), <<>>, TRUE, <<>>, "valued", None)
            ELSE UnconvertedCash(currency, cash_amount)
       ELSE UnconvertedCash(currency, cash_amount)

\* Mutant of AddToTotal: the total is replaced by the row's value.
AddToTotal_Overwrites(total, holding_value_usd) == holding_value_usd

\* total_portfolio_value_usd += holding_value_usd; a row that is skipped or
\* recorded as missing leaves the total alone (its amount is 0).
AddToTotal(total, holding_value_usd) == FAdd(total, holding_value_usd)

\* One iteration of the valuation loop over a row of the cleaned table.
ValueOneRow(row, eur, gbp, mkt) ==
    LET ticker == RowGet(row, "Ticker", Str(Chars_NA))
        shares == RowGet(row, "Shares", None)
        currency == RowGet(row, "Market Currency", Str(Chars_NA))
        asset_class == RowGet(row, "Asset Class", Str("N/A"))
    IN IF \/ IsNa(shares) \/ ticker = Str(Chars_NA)
          \/ currency = Str(Chars_NA) \/ asset_class = Str("N/A")
       THEN RowResult(Num(0), <<>>, FALSE, <<>>, "ignored", None)
       ELSE IF asset_class.s = "Equity" THEN EquityRow(ticker, shares, mkt)
       ELSE IF asset_class.s = "Cash" THEN CashRow(row, currency, eur, gbp)
       ELSE RowResult(Num(0), <<>>, TRUE, <<>>, "other", None)

(********************** sections 6/7: aggregation **************************)
\* total_isus_shares_outstanding is None or total_isus_shares_outstanding <= 0
\* (False for NaN).
IsBadShares(so) == IsNone(so) \/ (IsNum(so) /\ so.v <= 0) \/ so = Inf(TRUE)

InfText == <<"i", "n", "f">>

\* f"{total / so:.4f}" for a shares outstanding that passed the check above.
NavText(total, so) ==
    IF total.t = "nan" \/ so.t = "nan" THEN NanText
    ELSE IF IsInf(total)
    THEN (IF IsInf(so) THEN NanText
          ELSE (IF total.neg THEN <<"-">> ELSE <<>>) \o InfText)
    ELSE IF IsInf(so)
    THEN (IF total.v < 0 THEN <<"-">> ELSE <<>>) \o <<"0", ".", "0", "0", "0", "0">>
    ELSE Fmt4(total.v, so.v)

\* Mutant of FinalResultStatus: the missing list is not consulted.
FinalResultStatus_IgnoresMissing(so, total, missing) ==
    IF IsBadShares(so) THEN ERROR
    ELSE NavText(total, so)

\* final_result_status as the last section computes it.
FinalResultStatus(so, total, missing) ==
    IF IsBadShares(so) THEN ERROR
    ELSE IF Len(missing) = 0
    THEN NavText(total, so)
    ELSE ERROR

(******************************* state *************************************)
VARIABLES
    script,                          \* which script runs: "online" or "xls"
    pc,                              \* the section the run is at
    writable,                        \* whether open(filename, "w") succeeds
    result_file,                     \* content of nav_result.txt
    source_file,                     \* content of source_used.txt
    writes,                          \* write_status_file calls of this run
    calls,                           \* external calls and pacing sleeps of this run
    page,                            \* the answer to the product page request
    csv_response,                    \* the answer to the holdings CSV request
    total_isus_shares_outstanding,
    holdings_df,
    source_used,
    top_10_equities,
    current_eur_usd_rate,
    current_gbp_usd_rate,
    total_portfolio_value_usd,
    missing_prices,
    processed_count,
    idx,                             \* rows of holdings_df already iterated
    row_log,                         \* what each iteration did
    exit_code                        \* None while running, then the exit status

vars == << script, pc, writable, result_file, source_file, writes, calls, page,
           csv_response,
           total_isus_shares_outstanding, holdings_df, source_used, top_10_equities,
           current_eur_usd_rate, current_gbp_usd_rate, total_portfolio_value_usd,
           missing_prices, processed_count, idx, row_log, exit_code >>

valuation_vars == << top_10_equities, current_eur_usd_rate, current_gbp_usd_rate,
                     total_portfolio_value_usd, missing_prices, processed_count,
                     idx, row_log >>

Init ==
    /\ script \in {"online", "xls"}
    /\ pc = IF script = "online" THEN "scrape" ELSE "excel"
    /\ writable \in BOOLEAN
    /\ \E prior \in PriorFiles :
          /\ result_file = prior.result
          /\ source_file = prior.source
    /\ writes = <<>>
    /\ calls = <<>>
    /\ page = None
    /\ csv_response = None
    /\ total_isus_shares_outstanding = None
    /\ holdings_df = None
    /\ source_used = Chars_Unknown
    /\ top_10_equities = <<>>
    /\ current_eur_usd_rate = None
    /\ current_gbp_usd_rate = None
    /\ total_portfolio_value_usd = Num(0)
    /\ missing_prices = <<>>
    /\ processed_count = 0
    /\ idx = 0
    /\ row_log = <<>>
    /\ exit_code = None

\* write_status_file(filename, content) for each <<filename, content>> of ws,
\* in order: the file takes the content unless the open fails (IOError is
\* caught and only warned about).
LastContent(ws, file, old) ==
    LET hits == SelectSeq(ws, LAMBDA w : w.file = file)
    IN IF Len(hits) = 0 \/ ~writable THEN old ELSE hits[Len(hits)].content

WriteStatus(ws) ==
    /\ writes' = writes \o ws
    /\ result_file' = LastContent(ws, "nav_result.txt", result_file)
    /\ source_file' = LastContent(ws, "source_used.txt", source_file)

ResultWrite(content) == [file |-> "nav_result.txt", content |-> content]
SourceWrite(content) == [file |-> "source_used.txt", content |-> content]

\* Mutant of FatalWrites: the handler exits without writing the result file.
FatalWrites_SkipsResult(with_source) ==
    IF with_source THEN << SourceWrite(Chars_Error) >> ELSE << >>

\* The writes of a fatal handler: "ERROR" to the result file, preceded by
\* "Error" to the source file where the handler writes it.
FatalWrites(with_source) ==
    IF with_source THEN << SourceWrite(Chars_Error), ResultWrite(ERROR) >>
    ELSE << ResultWrite(ERROR) >>

\* A fatal handler: its writes, then sys.exit(1).
Fatal(with_source) ==
    /\ WriteStatus(FatalWrites(with_source))
    /\ exit_code' = Num(1)
    /\ pc' = "fatal_exit"

(*************** online script, section 1: scrape the page *****************)
\* requests.get / raise_for_status raises: fatal.
ScrapeFetchFails ==
    /\ pc = "scrape"
    /\ calls' = Append(calls, "page")
    /\ page' = [k |-> "raise"]
    /\ Fatal(FALSE)
    /\ UNCHANGED << script, writable, csv_response, total_isus_shares_outstanding,
                    holdings_df, source_used, valuation_vars >>

\* The page is fetched but no digits-only value is found: ValueError, fatal.
ScrapeExtractFails ==
    /\ pc = "scrape"
    /\ \E p \in Pages :
          /\ IsNone(ScrapedShares(p))
          /\ page' = p
    /\ calls' = Append(calls, "page")
    /\ Fatal(FALSE)
    /\ UNCHANGED << script, writable, csv_response, total_isus_shares_outstanding,
                    holdings_df, source_used, valuation_vars >>

ScrapeOk ==
    /\ pc = "scrape"
    /\ \E p \in Pages :
          /\ ~IsNone(ScrapedShares(p))
          /\ page' = p
          /\ total_isus_shares_outstanding' = ScrapedShares(p)
    /\ calls' = Append(calls, "page")
    /\ pc' = "holdings_url"
    /\ UNCHANGED << script, writable, result_file, source_file, writes, csv_response,
                    holdings_df, source_used, valuation_vars, exit_code >>

(************* online script, section 2: holdings CSV, fallback ************)
\* The remote CSV answer: the fetch raises, or content with a number of lines
\* whose lines from the third on parse to a table or fail to parse.
CsvResponses ==
    { [k |-> "raise", lines |-> 0, cols |-> {}, sel |-> <<>>] }
    \cup { [k |-> "unparsable", lines |-> n, cols |-> {}, sel |-> <<>>] : n \in {2, 3} }
    \cup { [k |-> "table", lines |-> 3 + Len(sh.sel), cols |-> sh.cols, sel |-> sh.sel] :
             sh \in TableShapes }

\* Mutant of UrlLoads: content that fails to parse is taken as loaded.
UrlLoads_AcceptsUnparsable(resp) == resp.k # "raise" /\ resp.lines > 2

\* Whether lines 95-120 leave holdings_df set from the URL.
UrlLoads(resp) == resp.k # "raise" /\ resp.lines > 2 /\ resp.k = "table"

HoldingsUrlOk ==
    /\ pc = "holdings_url"
    /\ \E resp \in CsvResponses :
          /\ UrlLoads(resp)
          /\ csv_response' = resp
          /\ holdings_df' = RawTable(resp.cols, resp.sel, "remote")
    /\ calls' = Append(calls, "csv")
    /\ source_used' = Chars_URL
    /\ WriteStatus(<< SourceWrite(Chars_URL) >>)
    /\ pc' = "cleaning"
    /\ UNCHANGED << script, writable, page, total_isus_shares_outstanding,
                    valuation_vars, exit_code >>

\* Fetch raised, content too short or unparsable: holdings_df stays None and
\* the local file is tried next.
HoldingsUrlFails ==
    /\ pc = "holdings_url"
    /\ \E resp \in CsvResponses :
          /\ ~UrlLoads(resp)
          /\ csv_response' = resp
    /\ calls' = Append(calls, "csv")
    /\ pc' = "holdings_local"
    /\ UNCHANGED << script, writable, result_file, source_file, writes, page,
                    total_isus_shares_outstanding, holdings_df, source_used,
                    valuation_vars, exit_code >>

LocalFileOk ==
    /\ pc = "holdings_local"
    /\ holdings_df = None
    /\ \E sh \in TableShapes : holdings_df' = RawTable(sh.cols, sh.sel, "local")
    /\ calls' = Append(calls, "local")
    /\ source_used' = Chars_LocalFile
    /\ WriteStatus(<< SourceWrite(Chars_LocalFile) >>)
    /\ pc' = "cleaning"
    /\ UNCHANGED << script, writable, page, csv_response,
                    total_isus_shares_outstanding, valuation_vars, exit_code >>

\* os.path.exists is false: nothing is read.
LocalFileMissing ==
    /\ pc = "holdings_local"
    /\ holdings_df = None
    /\ calls' = Append(calls, "local_absent")
    /\ Fatal(TRUE)
    /\ UNCHANGED << script, writable, page, csv_response, total_isus_shares_outstanding,
                    holdings_df, source_used, valuation_vars >>

\* The file exists but pd.read_csv raises.
LocalFileUnreadable ==
    /\ pc = "holdings_local"
    /\ holdings_df = None
    /\ calls' = Append(calls, "local")
    /\ Fatal(TRUE)
    /\ UNCHANGED << script, writable, page, csv_response, total_isus_shares_outstanding, holdings_df,
                    source_used, valuation_vars >>

(**************** spreadsheet script, section 1: Excel load ****************)
ExcelFileMissing ==
    /\ pc = "excel"
    /\ Fatal(FALSE)
    /\ UNCHANGED << script, writable, calls, page, csv_response, total_isus_shares_outstanding,
                    holdings_df, source_used, valuation_vars >>

\* The read of the shares row raises (sheet missing, file corrupt, ...).
ExcelReadRaises ==
    /\ pc = "excel"
    /\ calls' = Append(calls, "excel_cell")
    /\ Fatal(FALSE)
    /\ UNCHANGED << script, writable, page, csv_response, total_isus_shares_outstanding, holdings_df,
                    source_used, valuation_vars >>

\* The shares row is read but the cell is rejected: ValueError, fatal.
ExcelCellRejected ==
    /\ pc = "excel"
    /\ \E shares_row \in SharesRows : IsNone(SharesFromCell(shares_row))
    /\ calls' = Append(calls, "excel_cell")
    /\ Fatal(FALSE)
    /\ UNCHANGED << script, writable, page, csv_response, total_isus_shares_outstanding, holdings_df,
                    source_used, valuation_vars >>

\* The cell is accepted but the read of the holdings table raises.
ExcelTableFatal ==
    /\ pc = "excel"
    /\ \E shares_row \in SharesRows :
          /\ ~IsNone(SharesFromCell(shares_row))
          /\ total_isus_shares_outstanding' = SharesFromCell(shares_row)
    /\ calls' = calls \o << "excel_cell", "excel_table" >>
    /\ Fatal(FALSE)
    /\ UNCHANGED << script, writable, page, csv_response, holdings_df, source_used,
                    valuation_vars >>

ExcelLoaded ==
    /\ pc = "excel"
    /\ \E shares_row \in SharesRows :
          /\ ~IsNone(SharesFromCell(shares_row))
          /\ total_isus_shares_outstanding' = SharesFromCell(shares_row)
    /\ \E sh \in TableShapes : holdings_df' = RawTable(sh.cols, sh.sel, "excel")
    /\ calls' = calls \o << "excel_cell", "excel_table" >>
    /\ pc' = "cleaning"
    /\ UNCHANGED << script, writable, result_file, source_file, writes, page,
                    csv_response, source_used, valuation_vars, exit_code >>

(************************ data cleaning (both scripts) **********************)
\* dropna(subset=[...]) raises KeyError when one of its columns is absent;
\* a missing 'Market Value' column only prints the warning.
CleaningRaises(df) == ~(KeyCols \subseteq df.cols)

\* The columns of cols_to_clean have been replaced by the time dropna raises.
CleaningFatal ==
    /\ pc = "cleaning"
    /\ CleaningRaises(holdings_df)
    /\ holdings_df' = CleanColumns(holdings_df)
    /\ Fatal(FALSE)
    /\ UNCHANGED << script, writable, calls, page, csv_response, total_isus_shares_outstanding,
                    source_used, valuation_vars >>

CleaningOk ==
    /\ pc = "cleaning"
    /\ ~CleaningRaises(holdings_df)
    /\ holdings_df' = CleanTable(holdings_df)
    /\ pc' = "top10"
    /\ UNCHANGED << script, writable, result_file, source_file, writes, calls, page,
                    csv_response, total_isus_shares_outstanding, source_used, valuation_vars,
                    exit_code >>

(******************* top 10 equity holdings (both scripts) *****************)
\* The Market Value column is already numeric after cleaning, so the
\* to_numeric of this section leaves the table as it is.
IdentifyTop10 ==
    /\ pc = "top10"
    /\ top_10_equities' = Top10Equities(holdings_df)
    /\ pc' = "fx"
    /\ UNCHANGED << script, writable, result_file, source_file, writes, calls, page,
                    csv_response, total_isus_shares_outstanding, holdings_df, source_used,
                    current_eur_usd_rate, current_gbp_usd_rate,
                    total_portfolio_value_usd, missing_prices, processed_count,
                    idx, row_log, exit_code >>

(**************************** FX rates (both scripts) **********************)
\* The EUR/USD lookup, the pacing sleep, the GBP/USD lookup; an exception
\* anywhere leaves the rates not yet assigned at None.
FxRate(outcome) == IF outcome.k = "close" THEN Num(outcome.v) ELSE None

FetchFx ==
    /\ pc = "fx"
    /\ \E e \in HistOutcomes(2), g \in HistOutcomes(3) :
          IF e.k = "raise"
          THEN /\ current_eur_usd_rate' = None
               /\ current_gbp_usd_rate' = None
               /\ calls' = Append(calls, "fx_eur")
          ELSE /\ current_eur_usd_rate' = FxRate(e)
               /\ current_gbp_usd_rate' = FxRate(g)
               /\ calls' = calls \o << "fx_eur", "sleep", "fx_gbp" >>
    /\ pc' = "valuation"
    /\ UNCHANGED << script, writable, result_file, source_file, writes, page,
                    csv_response, total_isus_shares_outstanding, holdings_df, source_used,
                    top_10_equities, total_portfolio_value_usd, missing_prices,
                    processed_count, idx, row_log, exit_code >>

(*********************** valuation loop (both scripts) *********************)
\* The provider is asked only for an Equity row whose ticker passes the
\* symbol check; for every other row there is nothing to answer.
NoLookup ==
    [info |-> [k |-> "raise", currentPrice |-> None, regularMarketPrice |-> None],
     hist |-> [k |-> "empty", v |-> 0]]

LookupsFor(row) ==
    IF /\ RowGet(row, "Asset Class", Str("N/A")) = Str("Equity")
       /\ TickerValid(RowGet(row, "Ticker", Str(Chars_NA)))
    THEN MarketOutcomes
    ELSE {NoLookup}

ValueRow ==
    /\ pc = "valuation"
    /\ idx < Len(holdings_df.rows)
    /\ \E mkt \in LookupsFor(holdings_df.rows[idx + 1]) :
          LET r == ValueOneRow(holdings_df.rows[idx + 1], current_eur_usd_rate,
                               current_gbp_usd_rate, mkt)
          IN /\ total_portfolio_value_usd' = AddToTotal(total_portfolio_value_usd, r.add)
             /\ missing_prices' = missing_prices \o r.miss
             /\ processed_count' = processed_count + (IF r.counted THEN 1 ELSE 0)
             /\ calls' = calls \o r.events
             /\ row_log' = Append(row_log, [outcome |-> r.outcome, value |-> r.add,
                                            price |-> r.price, miss |-> r.miss,
                                            mkt |-> mkt])
    /\ idx' = idx + 1
    /\ UNCHANGED << script, pc, writable, result_file, source_file, writes, page,
                    csv_response, total_isus_shares_outstanding, holdings_df, source_used,
                    top_10_equities, current_eur_usd_rate, current_gbp_usd_rate,
                    exit_code >>

(************************* aggregation and exit ****************************)
\* The exit status once final_result_status is known: sys.exit(1) on
\* "ERROR", otherwise the script runs off its end.
ExitCode(final_result_status) == IF final_result_status = ERROR THEN Num(1) ELSE Num(0)

Aggregate ==
    /\ pc = "valuation"
    /\ idx = Len(holdings_df.rows)
    /\ LET final_result_status ==
               FinalResultStatus(total_isus_shares_outstanding,
                                 total_portfolio_value_usd, missing_prices)
       IN /\ WriteStatus(<< ResultWrite(final_result_status) >>)
          /\ exit_code' = ExitCode(final_result_status)
    /\ pc' = "end"
    /\ UNCHANGED << script, writable, calls, page, csv_response, total_isus_shares_outstanding,
                    holdings_df, source_used, valuation_vars >>

Next ==
    \/ ScrapeFetchFails \/ ScrapeExtractFails \/ ScrapeOk
    \/ HoldingsUrlOk \/ HoldingsUrlFails
    \/ LocalFileOk \/ LocalFileMissing \/ LocalFileUnreadable
    \/ ExcelFileMissing \/ ExcelReadRaises \/ ExcelCellRejected
    \/ ExcelTableFatal \/ ExcelLoaded
    \/ CleaningFatal \/ CleaningOk \/ IdentifyTop10
    \/ FetchFx \/ ValueRow \/ Aggregate

Spec == Init /\ [][Next]_vars

(***************************************************************************)
(* Properties                                                              *)
(***************************************************************************)
\* A decimal number with exactly 4 fraction digits, as f"{x:.4f}" prints one.
IsNumericText(s) ==
    LET body == IF Len(s) > 0 /\ s[1] = "-" THEN SubSeq(s, 2, Len(s)) ELSE s
        n == Len(body)
    IN /\ n >= 6
       /\ body[n - 4] = "."
       /\ IsDigit(SubSeq(body, 1, n - 5))
       /\ IsDigit(SubSeq(body, n - 3, n))

ResultWrites == SelectSeq(writes, LAMBDA w : w.file = "nav_result.txt")
SourceWrites == SelectSeq(writes, LAMBDA w : w.file = "source_used.txt")

\* The run wrote nav_result.txt, and wrote content last.
WroteResult(content) ==
    Len(ResultWrites) > 0 /\ ResultWrites[Len(ResultWrites)].content = content

\* The run wrote a number to nav_result.txt last.
WroteNumber ==
    Len(ResultWrites) > 0 /\ IsNumericText(ResultWrites[Len(ResultWrites)].content)

SharesPositive ==
    IsNum(total_isus_shares_outstanding) /\ total_isus_shares_outstanding.v > 0

InLoop == pc \in {"valuation", "end"}

IsEquity(row) == row["Asset Class"] = Str("Equity")
IsCash(row) == row["Asset Class"] = Str("Cash")
CashAmount(row) == IF "Market Value" \in DOMAIN row THEN row["Market Value"] ELSE None

RECURSIVE SumValues(_)
SumValues(log) ==
    IF Len(log) = 0 THEN 0
    ELSE SumValues(SubSeq(log, 1, Len(log) - 1)) + log[Len(log)].value.v

RECURSIVE AllMissing(_)
AllMissing(log) ==
    IF Len(log) = 0 THEN <<>>
    ELSE AllMissing(SubSeq(log, 1, Len(log) - 1)) \o log[Len(log)].miss

\* The total and the missing list are what the iterations so far added.
Accumulated ==
    /\ Len(row_log) = idx
    /\ total_portfolio_value_usd = Num(SumValues(row_log))
    /\ missing_prices = AllMissing(row_log)

Chars_AAPL == <<"A", "A", "P", "L">>
Chars_15_5000 == <<"1", "5", ".", "5", "0", "0", "0">>
Chars_166_6667 == <<"1", "6", "6", ".", "6", "6", "6", "7">>

IsAapl100(row) ==
    row["Ticker"] = Str(Chars_AAPL) /\ row["Shares"] = Num(100) /\ IsEquity(row)
IsUsdCash500(row) ==
    IsCash(row) /\ row["Market Currency"] = Str(USD) /\ CashAmount(row) = Num(500)

\* The table of scenarios A and B: AAPL x 100, then USD cash 500.
ScenarioTable ==
    /\ InLoop
    /\ Len(holdings_df.rows) = 2
    /\ IsAapl100(holdings_df.rows[1])
    /\ IsUsdCash500(holdings_df.rows[2])

\* C1: in a run that reaches the aggregation step with a non-empty missing
\* list, the one string written to the result file is "ERROR", never a
\* number, whatever the total and the shares outstanding.
C1_MissingGivesError ==
    (pc = "end" /\ missing_prices # <<>>) =>
        /\ ResultWrites = << ResultWrite(ERROR) >>
        /\ ~WroteNumber
        /\ (writable => result_file = ERROR)

C1_Witness ==
    /\ pc = "end"
    /\ missing_prices # <<>>
    /\ SharesPositive
    /\ total_portfolio_value_usd.v > 0
    /\ WroteResult(ERROR)

\* C2: whenever the shares outstanding reaching the aggregation step is
\* absent (None, or the NaN of an empty cell) or <= 0, the result written is
\* "ERROR".
C2_BadSharesGiveError ==
    (pc = "end" /\ ~SharesPositive) => WroteResult(ERROR)

\* C3: with shares outstanding > 0 and nothing missing, the result written is
\* (sum of the values of the rows) / shares outstanding with 4 decimals and
\* the exit code is 0; AAPL x 100 at 150 plus USD cash 500 over 1000 shares
\* gives total 15500 and "15.5000"; USD cash 500 over 3 shares "166.6667".
C3_NavIsTotalOverShares ==
    /\ (pc = "end" /\ SharesPositive /\ missing_prices = <<>>) =>
          /\ Accumulated
          /\ ResultWrites = << ResultWrite(Fmt4(SumValues(row_log),
                                                 total_isus_shares_outstanding.v)) >>
          /\ WroteNumber
          /\ (writable => result_file = ResultWrites[1].content)
          /\ exit_code = Num(0)
    /\ (/\ pc = "end" /\ ScenarioTable /\ row_log[1].price = Num(150)
        /\ total_isus_shares_outstanding = Num(1000)) =>
          /\ total_portfolio_value_usd = Num(15500)
          /\ ResultWrites = << ResultWrite(Chars_15_5000) >>
          /\ exit_code = Num(0)
    /\ (/\ pc = "end" /\ Len(holdings_df.rows) = 1 /\ IsUsdCash500(holdings_df.rows[1])
        /\ total_isus_shares_outstanding = Num(3)) =>
          ResultWrites = << ResultWrite(Chars_166_6667) >>

C3_Witness ==
    /\ pc = "end"
    /\ ScenarioTable
    /\ row_log[1].price = Num(150)
    /\ total_isus_shares_outstanding = Num(1000)
    /\ total_portfolio_value_usd = Num(15500)
    /\ writable
    /\ result_file = Chars_15_5000
    /\ exit_code = Num(0)

\* C4: a terminated run has exit code 0 if and only if it wrote a numeric NAV
\* to the result file; every fatal path and every "ERROR" aggregation outcome
\* has exit code 1.
C4_ExitZeroIffNumber ==
    (exit_code # None) =>
        /\ (exit_code = Num(0)) <=> WroteNumber
        /\ (pc = "fatal_exit" => exit_code = Num(1))
        /\ (WroteResult(ERROR) => exit_code = Num(1))

\* C5: a run that ends with a non-zero exit status has written "ERROR" to the
\* result file, as its last write to it, so (the write succeeding) the file
\* holds "ERROR" and not what an earlier run left.
C5_NonZeroExitWroteError ==
    (exit_code # None /\ exit_code # Num(0)) =>
        /\ WroteResult(ERROR)
        /\ (writable => result_file = ERROR)

\* A fatal run that began with the files of an earlier successful run (the
\* source file still holds that run's tag) and replaced the earlier result.
C5_Witness ==
    /\ pc = "fatal_exit"
    /\ exit_code = Num(1)
    /\ writable
    /\ source_file = Chars_URL
    /\ SourceWrites = <<>>
    /\ result_file = ERROR

Made(call) == \E i \in 1..Len(calls) : calls[i] = call

\* The remote CSV did not yield a table: the fetch raised, the content had
\* fewer than 3 lines, or it failed to parse.
CsvFailed(resp) == resp.k = "raise" \/ resp.lines < 3 \/ resp.k = "unparsable"

\* The local file was found absent, or was read and the read raised.
LocalFailed == Made("local_absent") \/ (Made("local") /\ holdings_df = None)

\* C6: in the scrape+CSV script the local file is consulted only after the
\* remote CSV failed (fetch raised, fewer than 3 lines, parse failure) and
\* always then; a local file absent or unreadable is fatal with "Error" and
\* "ERROR" written and exit code 1; the tag written is "URL" exactly for a
\* table from the remote CSV and "Local File" exactly for one from the local
\* file; cleaning, FX and valuation run only on a table from one of the two.
C6_SourceFallback ==
    (script = "online") =>
        /\ (Made("local") \/ Made("local_absent")) =>
              (csv_response # None /\ CsvFailed(csv_response))
        /\ (csv_response # None /\ CsvFailed(csv_response) /\ pc # "holdings_local") =>
              (Made("local") \/ Made("local_absent"))
        /\ LocalFailed =>
              /\ pc = "fatal_exit"
              /\ exit_code = Num(1)
              /\ writes = << SourceWrite(Chars_Error), ResultWrite(ERROR) >>
              /\ (writable => source_file = Chars_Error /\ result_file = ERROR)
              /\ ~Made("fx_eur") /\ ~Made("info") /\ idx = 0
        /\ (holdings_df # None) =>
              /\ holdings_df.origin \in {"remote", "local"}
              /\ (holdings_df.origin = "remote") <=>
                    (csv_response # None /\ ~CsvFailed(csv_response))
              /\ (holdings_df.origin = "local") <=> Made("local")
              /\ SourceWrites = << SourceWrite(IF holdings_df.origin = "remote"
                                               THEN Chars_URL ELSE Chars_LocalFile) >>
              /\ (writable => source_file = SourceWrites[1].content)
        /\ (pc \in {"cleaning", "top10", "fx", "valuation", "end"} \/ Made("fx_eur") \/ Made("info")
            \/ idx > 0) => holdings_df # None

\* A run valued a table that came from the local file after the remote fetch
\* raised.
C6_Witness ==
    /\ script = "online"
    /\ pc = "end"
    /\ csv_response = [k |-> "raise", lines |-> 0, cols |-> {}, sel |-> <<>>]
    /\ calls[2] = "csv" /\ calls[3] = "local"
    /\ holdings_df.origin = "local"
    /\ idx = 2
    /\ writable
    /\ source_file = Chars_LocalFile

\* The page holds a digits-only shares outstanding value (after the ',' are
\* removed) at the expected place.
HasDigitsValue(p) ==
    /\ p.container
    /\ p.data
    /\ LET t == RemoveChar(p.text, ",")
       IN Len(t) > 0 /\ \A i \in 1..Len(t) : t[i] \in DigitSet

ScrapeFailed == page # None /\ (page.k = "raise" \/ ~HasDigitsValue(page))

\* C7: in the scrape+CSV script a failed page fetch or a page without a
\* digits-only value ends the run at once: "ERROR" written, exit code 1, and
\* no CSV fetch, local read, FX or price lookup, and no shares outstanding
\* value from anywhere else.
C7_ScrapeFailureIsFatal ==
    (script = "online" /\ ScrapeFailed) =>
        /\ pc = "fatal_exit"
        /\ exit_code = Num(1)
        /\ writes = << ResultWrite(ERROR) >>
        /\ (writable => result_file = ERROR)
        /\ calls = << "page" >>
        /\ csv_response = None
        /\ holdings_df = None
        /\ total_isus_shares_outstanding = None
        /\ idx = 0

C7_Witness ==
    /\ script = "online"
    /\ page # None
    /\ page.k = "page"
    /\ page.container /\ page.data
    /\ page.text = <<"1", ".", "5", "M">>
    /\ pc = "fatal_exit"
    /\ WroteResult(ERROR)

\* Row i of the cleaned table and what its iteration did.
RowAt(i) == holdings_df.rows[i]
RateFor(currency) ==
    IF currency = EUR THEN current_eur_usd_rate
    ELSE IF currency = GBP THEN current_gbp_usd_rate
    ELSE None

\* C8: a Cash row with a non-null marketValue adds marketValue when USD,
\* marketValue x rate when EUR or GBP with the rate present, and otherwise
\* (rate absent, or any other currency whatever the rates) adds 0 and the
\* tag "{currency} Cash" to the missing list.
C8_CashRows ==
    InLoop =>
        /\ Accumulated
        /\ \A i \in 1..idx :
              (IsCash(RowAt(i)) /\ ~IsNa(CashAmount(RowAt(i)))) =>
                 LET cur == RowAt(i)["Market Currency"].s
                     amount == CashAmount(RowAt(i)).v
                     did == row_log[i]
                 IN IF cur = USD
                    THEN did.value = Num(amount) /\ did.miss = <<>>
                    ELSE IF cur \in {EUR, GBP} /\ RateFor(cur) # None
                    THEN did.value = Num(amount * RateFor(cur).v) /\ did.miss = <<>>
                    ELSE did.value = Num(0) /\ did.miss = << cur \o Chars_Cash >>

\* EUR cash converted at the rate, then JPY cash recorded as missing although
\* both rates are present.
C8_Witness ==
    /\ pc = "end"
    /\ idx = 2
    /\ RowAt(1)["Market Currency"] = Str(EUR) /\ IsCash(RowAt(1))
    /\ RowAt(2)["Market Currency"] = Str(JPY) /\ IsCash(RowAt(2))
    /\ current_eur_usd_rate = Num(2) /\ current_gbp_usd_rate = Num(3)
    /\ row_log[1].value = Num(400)
    /\ total_portfolio_value_usd = Num(400)
    /\ missing_prices = << <<"J", "P", "Y", " ", "C", "a", "s", "h">> >>

\* The ticker is a string of at most 10 characters without a space.
PassesSymbolCheck(row) ==
    /\ row["Ticker"].t = "str"
    /\ Len(row["Ticker"].s) < 11
    /\ \A k \in 1..Len(row["Ticker"].s) : row["Ticker"].s[k] # " "

\* The price the provider's answers give: the current price unless absent or
\* zero, else the regular market price, else the last close; None when a
\* lookup raises or nothing is there.
PriceGiven(mkt) ==
    IF mkt.info.k = "raise" THEN None
    ELSE IF mkt.info.currentPrice # None /\ mkt.info.currentPrice # Num(0)
    THEN mkt.info.currentPrice
    ELSE IF mkt.info.regularMarketPrice # None THEN mkt.info.regularMarketPrice
    ELSE IF mkt.hist.k = "close" THEN Num(mkt.hist.v)
    ELSE None

\* C9: an Equity row whose ticker passes the symbol check adds shares x price
\* and nothing to the missing list when a price is obtained; when none is, or
\* a lookup raises, it adds 0 and its ticker to the missing list, and the
\* loop goes on (AAPL failing before USD cash 500: missing = <<AAPL>>, total
\* 500, result "ERROR").
C9_EquityRows ==
    /\ InLoop =>
          /\ Accumulated
          /\ \A i \in 1..idx :
                (IsEquity(RowAt(i)) /\ PassesSymbolCheck(RowAt(i))) =>
                   LET price == PriceGiven(row_log[i].mkt)
                       did == row_log[i]
                   IN IF price # None
                      THEN /\ did.value = Num(RowAt(i)["Shares"].v * price.v)
                           /\ did.miss = <<>>
                      ELSE /\ did.value = Num(0)
                           /\ did.miss = << RowAt(i)["Ticker"].s >>
    /\ (pc = "valuation" /\ idx < Len(holdings_df.rows)) => ENABLED ValueRow
    /\ (pc = "end") => idx = Len(holdings_df.rows)
    /\ (pc = "end" /\ ScenarioTable /\ PriceGiven(row_log[1].mkt) = None) =>
          /\ missing_prices = << Chars_AAPL >>
          /\ total_portfolio_value_usd = Num(500)
          /\ WroteResult(ERROR)
          /\ exit_code = Num(1)

\* Scenario B: the AAPL lookup raised, the cash row after it was still valued.
C9_Witness ==
    /\ pc = "end"
    /\ ScenarioTable
    /\ row_log[1].mkt.info.k = "raise"
    /\ missing_prices = << Chars_AAPL >>
    /\ row_log[2].value = Num(500)
    /\ total_isus_shares_outstanding = Num(1000)
    /\ WroteResult(ERROR)

\* The rows the loop values or records as missing: Equity rows that pass the
\* symbol check and Cash rows with a non-null marketValue.
Eligible(row) ==
    \/ IsEquity(row) /\ PassesSymbolCheck(row)
    \/ IsCash(row) /\ ~IsNa(CashAmount(row))

\* C10 as stated: in a run that writes a number, every Equity row and every
\* Cash row of the cleaned table has contributed its value, rows with a
\* rejected ticker and cash rows with a null marketValue included.
C10_EveryRowContributed ==
    (pc = "end" /\ WroteNumber) =>
        \A i \in 1..Len(holdings_df.rows) :
            (IsEquity(RowAt(i)) \/ IsCash(RowAt(i))) => row_log[i].outcome = "valued"

\* C10 amended: in a run that writes a number, every Equity row that passes
\* the symbol check and every Cash row with a non-null marketValue has been
\* valued; an Equity row with a rejected ticker and a Cash row with a null
\* marketValue are skipped, adding nothing to the total or the missing list.
C10_EligibleRowsContributed ==
    /\ (pc = "end" /\ WroteNumber) =>
          /\ missing_prices = <<>>
          /\ \A i \in 1..Len(holdings_df.rows) :
                Eligible(RowAt(i)) => row_log[i].outcome = "valued"
    /\ InLoop =>
          \A i \in 1..idx :
             ((IsEquity(RowAt(i)) \/ IsCash(RowAt(i))) /\ ~Eligible(RowAt(i))) =>
                /\ row_log[i].outcome = "skipped"
                /\ row_log[i].value = Num(0)
                /\ row_log[i].miss = <<>>

\* A number was written although a row with a rejected ticker was skipped.
C10_Witness ==
    /\ pc = "end"
    /\ WroteNumber
    /\ exit_code = Num(0)
    /\ idx = 2
    /\ IsEquity(RowAt(1)) /\ ~PassesSymbolCheck(RowAt(1))
    /\ row_log[1].outcome = "skipped"
    /\ row_log[2].outcome = "valued"

\* C11: a holdings table that lacks one of the five required columns is not
\* fatal in either script: the run never ends in the fatal handler of the
\* cleaning step (the only fatal handler that runs once a table is loaded).
C11_MissingColumnNotFatal ==
    (holdings_df # None /\ Cardinality(AllCols \ holdings_df.cols) = 1) =>
        pc # "fatal_exit"

\* C12: in the spreadsheet script the holdings table is read, and the NAV
\* division reached, only with a shares outstanding number from the cell; an
\* empty cell (NaN) never gets that far and "nan" is never the result.
C12_CellAcceptedOnlyIfNumeric ==
    (script = "xls") =>
        /\ Made("excel_table") => IsNum(total_isus_shares_outstanding)
        /\ (pc = "end") => ~WroteResult(NanText)

\* The shares and the marketValue of a row are finite and not negative
\* (prices and FX rates always are).
NonNegativeRow(row) ==
    /\ IsNum(row["Shares"]) /\ row["Shares"].v >= 0
    /\ ~IsInf(CashAmount(row))
    /\ IsNum(CashAmount(row)) => CashAmount(row).v >= 0

\* A step of the valuation loop.
LoopStep == pc = "valuation" /\ idx' = idx + 1

\* C13 as stated: the total starts at 0 and no iteration of the valuation
\* loop ever lowers it, whatever the cleaned table holds.
C13_TotalNeverDecreases ==
    /\ total_portfolio_value_usd = Num(0)
    /\ [][LoopStep => total_portfolio_value_usd'.v >= total_portfolio_value_usd.v]_vars

\* C13 amended: the total starts at 0 and each iteration changes it by
\* exactly the value of its row (0 for a row skipped or recorded as missing);
\* it does not decrease over a row whose shares and marketValue are finite
\* and not negative, and a USD Cash row with a negative marketValue lowers it.
C13_TotalFollowsRowValues ==
    /\ total_portfolio_value_usd = Num(0)
    /\ [][LoopStep =>
            LET row == holdings_df.rows[idx + 1]
                did == row_log'[idx + 1]
            IN /\ total_portfolio_value_usd' = Num(total_portfolio_value_usd.v + did.value.v)
               /\ NonNegativeRow(row) =>
                     total_portfolio_value_usd'.v >= total_portfolio_value_usd.v
               /\ (/\ IsCash(row) /\ row["Market Currency"] = Str(USD)
                   /\ IsNum(CashAmount(row)) /\ CashAmount(row).v < 0) =>
                     total_portfolio_value_usd'.v < total_portfolio_value_usd.v]_vars

\* USD cash 500 was added, then USD cash -700 brought the total below 0.
C13_Witness ==
    /\ InLoop
    /\ idx = 2
    /\ row_log[1].value = Num(500)
    /\ CashAmount(RowAt(2)) = Num(-700)
    /\ row_log[2].value = Num(-700)
    /\ total_portfolio_value_usd = Num(-200)

\* A call to the market data provider; the info and history requests of one
\* ticker count as one lookup.
IsLookup(call) == call \in {"fx_eur", "fx_gbp", "info", "history"}
SameTicker(i, j) == j = i + 1 /\ calls[i] = "info" /\ calls[j] = "history"

\* C14: between any two consecutive lookups of a run (EUR/USD, GBP/USD, each
\* ticker, whether it gave a price, gave nothing or raised) there is a pacing
\* sleep.
C14_SleepBetweenLookups ==
    \A i, j \in 1..Len(calls) :
        (i < j /\ IsLookup(calls[i]) /\ IsLookup(calls[j]) /\ ~SameTicker(i, j)) =>
            \E k \in (i + 1)..(j - 1) : calls[k] = "sleep"

\* The Equity rows of the cleaned table, the snapshot value of a row, and
\* the rows the list names (tickers of Equity rows are distinct).
EquityRows == { i \in 1..Len(holdings_df.rows) : IsEquity(RowAt(i)) }
HasValue(i) == IsNum(CashAmount(RowAt(i)))
Listed(i) == \E k \in 1..Len(top_10_equities) : top_10_equities[k] = RowAt(i)["Ticker"]
ListedRow(k) == CHOOSE i \in EquityRows : RowAt(i)["Ticker"] = top_10_equities[k]
AnyLookup == \E c \in 1..Len(calls) : IsLookup(calls[c])

\* What the list holds once the top-10 section has run.
Top10Content ==
    LET top == top_10_equities
    IN /\ Len(top) <= 10
       /\ \A k \in 1..Len(top) : \E i \in EquityRows : RowAt(i)["Ticker"] = top[k]
       /\ \A k, l \in 1..Len(top) : k < l =>
             /\ top[k] # top[l]
             /\ HasValue(ListedRow(l)) =>
                   /\ HasValue(ListedRow(k))
                   /\ CashAmount(RowAt(ListedRow(k))).v >= CashAmount(RowAt(ListedRow(l))).v
       /\ IF \E i \in EquityRows : HasValue(i)
          THEN \A i \in EquityRows : ~Listed(i) =>
                  /\ Len(top) = 10
                  /\ \A j \in EquityRows : (Listed(j) /\ HasValue(i)) =>
                        /\ HasValue(j)
                        /\ CashAmount(RowAt(j)).v >= CashAmount(RowAt(i)).v
          ELSE top = <<>>

\* C15: the top-10 list is set by the top-10 section, before any FX or price
\* lookup, and no later step changes it; it holds at most 10 tickers, all of
\* Equity rows, by descending snapshot marketValue, the largest ones of the
\* cleaned table, whatever the lookups of the run answered.
C15_Top10FixedBeforeLookups ==
    /\ [](pc \in {"fx", "valuation", "end"} => Top10Content)
    /\ [](pc \in {"cleaning", "top10"} => (top_10_equities = <<>> /\ ~AnyLookup))
    /\ [][top_10_equities' # top_10_equities => (pc = "top10" /\ ~AnyLookup)]_vars

\* A table of 11 Equity rows was valued to the end: the list has the 10
\* largest, from EQ K (120) down to EQ D (20), and not EQ B (10).
C15_Witness ==
    /\ pc = "end"
    /\ Len(holdings_df.rows) = 11
    /\ EquityRows = 1..11
    /\ RowAt(1)["Ticker"] = Str(<<"E", "Q", " ", "A">>)
    /\ RowAt(2)["Ticker"] = Str(<<"E", "Q", " ", "B">>)
    /\ Len(top_10_equities) = 10
    /\ top_10_equities[1] = Str(<<"E", "Q", " ", "K">>)
    /\ top_10_equities[10] = Str(<<"E", "Q", " ", "D">>)
    /\ ~Listed(2)
    /\ AnyLookup

====
